---- MODULE Spec2Model ----
(***************************************************************************)
(* Model of the CSV importer of py-utils                                   *)
(* (src/app/import_csv_to_mysql/main.py): parse_csv_row as operators over  *)
(* strings modelled as sequences of characters, and main /                 *)
(* import_csv_to_mysql as a state machine over a transactional table.      *)
(*                                                                         *)
(* A string is a sequence of characters; a character is a one-element     *)
(* name ("5", "/", " ") or the name of a non-ASCII character:              *)
(*   "IDSP"  U+3000 ideographic space     "FW5"  U+FF15 full-width five    *)
(*   "FW_A"  U+FF21 full-width A          "KABU" U+3231 parenthesised      *)
(*   "KANJI" U+682A (the ideograph inside U+3231)                          *)
(* An Optional value is a sequence: << >> is None, <<x>> is the value x.   *)
(***************************************************************************)
EXTENDS Integers, Sequences, FiniteSets, TLC

(***************************************************************************)
(* Python string primitives used by the importer.                          *)
(***************************************************************************)

\* str.isspace() on the characters of the model
IsSpace(c) == c \in {" ", "IDSP"}

RECURSIVE LStrip(_)
LStrip(s) == IF s = << >> THEN s
             ELSE IF IsSpace(Head(s)) THEN LStrip(Tail(s)) ELSE s

RECURSIVE RStrip(_)
RStrip(s) == IF s = << >> THEN s
             ELSE IF IsSpace(s[Len(s)]) THEN RStrip(SubSeq(s, 1, Len(s) - 1)) ELSE s

\* str.strip(): leading and trailing whitespace removed
Strip(s) == RStrip(LStrip(s))

\* str.replace(',', '')
RemoveCommas(s) == SelectSeq(s, LAMBDA c : c # ",")

\* c in s
Contains(s, c) == \E i \in 1..Len(s) : s[i] = c

\* the decimal digits (Unicode category Nd) of the model and their values
DigitVal == [c \in {"0", "1", "2", "3", "4", "5", "6", "7", "8", "9", "FW5"} |->
               CASE c = "0" -> 0 [] c = "1" -> 1 [] c = "2" -> 2 [] c = "3" -> 3
                 [] c = "4" -> 4 [] c = "5" -> 5 [] c = "6" -> 6 [] c = "7" -> 7
                 [] c = "8" -> 8 [] c = "9" -> 9 [] c = "FW5" -> 5]

IsDigit(c) == c \in DOMAIN DigitVal

IsAsciiDigit(c) == c \in {"0", "1", "2", "3", "4", "5", "6", "7", "8", "9"}

RECURSIVE DigitsValue(_)
DigitsValue(s) == IF s = << >> THEN 0
                  ELSE 10 * DigitsValue(SubSeq(s, 1, Len(s) - 1)) + DigitVal[s[Len(s)]]

\* int(s): optional sign, then digits (single underscores allowed between
\* digits), surrounding whitespace ignored; anything else is a ValueError.
PyInt(s) ==
  LET t    == Strip(s)
      neg  == t # << >> /\ Head(t) = "-"
      body == IF t # << >> /\ Head(t) \in {"-", "+"} THEN Tail(t) ELSE t
      good == /\ body # << >>
              /\ \A i \in 1..Len(body) :
                   \/ IsDigit(body[i])
                   \/ /\ body[i] = "_"
                      /\ 1 < i /\ i < Len(body)
                      /\ IsDigit(body[i - 1]) /\ IsDigit(body[i + 1])
      mag  == DigitsValue(SelectSeq(body, IsDigit))
  IN  IF good THEN [ok |-> TRUE, v |-> IF neg THEN 0 - mag ELSE mag]
      ELSE [ok |-> FALSE, v |-> 0]

\* unicodedata.normalize('NFKC', .) on one character of the model
NfkcChar(c) == CASE c = "FW_A" -> <<"A">>
                 [] c = "FW5"  -> <<"5">>
                 [] c = "IDSP" -> <<" ">>
                 [] c = "KABU" -> <<"(", "KANJI", ")">>
                 [] OTHER      -> <<c>>

RECURSIVE NFKC(_)
NFKC(s) == IF s = << >> THEN << >> ELSE NfkcChar(Head(s)) \o NFKC(Tail(s))

(***************************************************************************)
(* datetime.strptime(s, '%Y/%m/%d').date()                                 *)
(* _strptime matches the regular expression                                *)
(*   (\d\d\d\d)/(1[0-2]|0[1-9]|[1-9])/(3[01]|[12]\d|0[1-9]|[1-9]| [1-9])   *)
(* at the start of s, fails if text remains after the match, and then      *)
(* builds the date, which fails for year 0 and for a day the month lacks.  *)
(***************************************************************************)
At(s, i) == IF i >= 1 /\ i <= Len(s) THEN s[i] ELSE "EOS"

IsLeap(y) == (y % 4 = 0) /\ ((y % 100 # 0) \/ (y % 400 = 0))

DaysInMonth(y, m) == IF m = 2 THEN (IF IsLeap(y) THEN 29 ELSE 28)
                     ELSE IF m \in {4, 6, 9, 11} THEN 30 ELSE 31

\* number of characters the month group takes at position i (0: no match);
\* the alternatives are tried in order and the next literal "/" must follow
MonthLen(s, i) ==
  IF At(s, i) = "1" /\ At(s, i + 1) \in {"0", "1", "2"} /\ At(s, i + 2) = "/" THEN 2
  ELSE IF At(s, i) = "0" /\ IsAsciiDigit(At(s, i + 1)) /\ At(s, i + 1) # "0"
          /\ At(s, i + 2) = "/" THEN 2
  ELSE IF IsAsciiDigit(At(s, i)) /\ At(s, i) # "0" /\ At(s, i + 1) = "/" THEN 1
  ELSE 0

\* number of characters the day group takes at position i (0: no match);
\* nothing follows the group in the pattern, so the first alternative wins
DayLen(s, i) ==
  IF At(s, i) = "3" /\ At(s, i + 1) \in {"0", "1"} THEN 2
  ELSE IF At(s, i) \in {"1", "2"} /\ IsDigit(At(s, i + 1)) THEN 2
  ELSE IF At(s, i) = "0" /\ IsAsciiDigit(At(s, i + 1)) /\ At(s, i + 1) # "0" THEN 2
  ELSE IF IsAsciiDigit(At(s, i)) /\ At(s, i) # "0" THEN 1
  ELSE IF At(s, i) = " " /\ IsAsciiDigit(At(s, i + 1)) /\ At(s, i + 1) # "0" THEN 2
  ELSE 0

Strptime(s) ==
  LET yOk == (\A i \in 1..4 : IsDigit(At(s, i))) /\ At(s, 5) = "/"
      mLen == MonthLen(s, 6)
      dPos == 6 + mLen + 1
      dLen == DayLen(s, dPos)
      y == DigitsValue(SubSeq(s, 1, 4))
      m == DigitsValue(SubSeq(s, 6, 5 + mLen))
      d == DigitsValue(SelectSeq(SubSeq(s, dPos, dPos + dLen - 1), IsDigit))
  IN  IF /\ yOk /\ mLen > 0 /\ dLen > 0
         /\ dPos + dLen - 1 = Len(s)
         /\ y >= 1 /\ d <= DaysInMonth(y, m)
      THEN <<[y |-> y, m |-> m, d |-> d]>>
      ELSE << >>

(***************************************************************************)
(* parse_csv_row (src/app/import_csv_to_mysql/main.py, lines 38-104).      *)
(* A row is a sequence of cells; the source's row[i] is Cell(row, i).      *)
(***************************************************************************)
Cell(row, i) == row[i + 1]

\* separator.join(cells)
RECURSIVE Join(_, _)
Join(cells, sep) == IF cells = << >> THEN << >>
                    ELSE IF Len(cells) = 1 THEN cells[1]
                    ELSE cells[1] \o sep \o Join(Tail(cells), sep)

\* variant: the positional mapping for every width (the extraction of
\* src/import_csv_to_mysql/main.py), without the wide-row branch
ExtractFieldsPositional(row) ==
  [store |-> IF Len(row) > 1 THEN Strip(Cell(row, 1)) ELSE << >>,
   price_idx |-> 2, payment_amount_idx |-> 5, note_idx |-> 6]

\* variant: the payment amount is read from the installment-count cell
ExtractFieldsInstallment(row) ==
  IF Len(row) > 7
  THEN [store |-> Join([k \in 1..(Len(row) - 6) |-> Strip(Cell(row, k))], <<",", " ">>),
        price_idx |-> Len(row) - 5,
        payment_amount_idx |-> Len(row) - 2,
        note_idx |-> Len(row) - 1]
  ELSE [store |-> IF Len(row) > 1 THEN Strip(Cell(row, 1)) ELSE << >>,
        price_idx |-> 2,
        payment_amount_idx |-> 4,
        note_idx |-> 6]

\* lines 57-72: the store name before normalisation and the indices of the
\* price, payment-amount and note cells, by the width of the row
ExtractFields(row) ==
  IF Len(row) > 7
  THEN [store |-> Join([k \in 1..(Len(row) - 6) |-> Strip(Cell(row, k))], <<",", " ">>),
        price_idx |-> Len(row) - 5,
        payment_amount_idx |-> Len(row) - 2,
        note_idx |-> Len(row) - 1]
  ELSE [store |-> IF Len(row) > 1 THEN Strip(Cell(row, 1)) ELSE << >>,
        price_idx |-> 2,
        payment_amount_idx |-> 5,
        note_idx |-> 6]

\* variant: the sign of the parsed amount is dropped
ParseAmountAbs(row, idx, fallback) ==
  IF Len(row) > idx /\ Strip(Cell(row, idx)) # << >>
  THEN LET r == PyInt(Strip(RemoveCommas(Cell(row, idx))))
       IN  IF r.ok THEN (IF r.v < 0 THEN 0 - r.v ELSE r.v) ELSE fallback
  ELSE fallback

\* variant: a cell that does not parse yields 0, whatever the fallback
ParseAmountZero(row, idx, fallback) ==
  IF Len(row) > idx /\ Strip(Cell(row, idx)) # << >>
  THEN LET r == PyInt(Strip(RemoveCommas(Cell(row, idx))))
       IN  IF r.ok THEN r.v ELSE 0
  ELSE fallback

\* lines 78-81 and 85-88: int(cell.replace(',', '').strip()) when the cell
\* exists and is not blank, the fallback when it is missing, blank or
\* raises ValueError
ParseAmount(row, idx, fallback) ==
  IF Len(row) > idx /\ Strip(Cell(row, idx)) # << >>
  THEN LET r == PyInt(Strip(RemoveCommas(Cell(row, idx))))
       IN  IF r.ok THEN r.v ELSE fallback
  ELSE fallback

\* variant: a blank note cell yields the empty string
ParseNoteEmpty(row, idx) ==
  IF Len(row) > idx THEN <<NFKC(Strip(Cell(row, idx)))>> ELSE << >>

\* lines 91-94: the stripped, normalised note, or None
ParseNote(row, idx) ==
  IF Len(row) > idx /\ Strip(Cell(row, idx)) # << >>
  THEN <<NFKC(Strip(Cell(row, idx)))>>
  ELSE << >>

\* variant: the check of the row's length (line 41) is missing
ParseUsedAtNoLength(row) ==
  IF row = << >> THEN << >>
  ELSE IF Cell(row, 0) = << >> \/ Strip(Cell(row, 0)) = << >> THEN << >>
  ELSE Strptime(Strip(Cell(row, 0)))

\* lines 41-52: the used_at date of the row, or None when the row is
\* excluded (too short, blank date cell, strptime raises ValueError)
ParseUsedAt(row) ==
  IF row = << >> \/ Len(row) < 6 THEN << >>
  ELSE IF Cell(row, 0) = << >> \/ Strip(Cell(row, 0)) = << >> THEN << >>
  ELSE Strptime(Strip(Cell(row, 0)))

parse_csv_row(row, card_number, service) ==
  LET used  == ParseUsedAt(row)
      f     == ExtractFields(row)
      price == ParseAmount(row, f.price_idx, 0)
  IN  IF used = << >> THEN << >>
      ELSE <<[used_at     |-> used[1],
              store       |-> NFKC(f.store),
              price       |-> price,
              payment     |-> ParseAmount(row, f.payment_amount_idx, price),
              note        |-> ParseNote(row, f.note_idx),
              service     |-> service,
              card_number |-> card_number]>>

(***************************************************************************)
(* parse_csv_row of the older copy (src/import_csv_to_mysql/main.py, lines *)
(* 38-85): the same checks and conversions, the cells read by position.    *)
(***************************************************************************)
\* variant: the store cell is not trimmed
ExtractFieldsOldUntrimmed(row) ==
  [store |-> IF Len(row) > 1 THEN Cell(row, 1) ELSE << >>,
   price_idx |-> 2, payment_amount_idx |-> 5, note_idx |-> 6]

\* lines 54, 60, 67 and 72 of the older copy: store from cell 1, price from
\* cell 2, payment amount from cell 5, note from cell 6, for every width
ExtractFieldsOld(row) ==
  [store |-> IF Len(row) > 1 THEN Strip(Cell(row, 1)) ELSE << >>,
   price_idx |-> 2, payment_amount_idx |-> 5, note_idx |-> 6]

parse_csv_row_old(row, card_number, service) ==
  LET used  == ParseUsedAt(row)
      f     == ExtractFieldsOld(row)
      price == ParseAmount(row, f.price_idx, 0)
  IN  IF used = << >> THEN << >>
      ELSE <<[used_at     |-> used[1],
              store       |-> NFKC(f.store),
              price       |-> price,
              payment     |-> ParseAmount(row, f.payment_amount_idx, price),
              note        |-> ParseNote(row, f.note_idx),
              service     |-> service,
              card_number |-> card_number]>>

(***************************************************************************)
(* Inputs of the parser specification.                                     *)
(***************************************************************************)
MaxWidth == 9      \* widest row of the shape rows
MaxNumLen == 3     \* longest amount cell of the amount rows

Services == {"vpass", "enavi"}

Card1 == <<"1", "-", "*", "5">>
Card2 == <<"9", "-", "*", "*">>

ValidDate1 == <<"2", "0", "2", "4", "/", "0", "1", "/", "1", "5">>
ValidDate2 == <<"2", "0", "2", "4", "/", "0", "2", "/", "0", "1">>

\* shape rows: every width up to MaxWidth, a valid or an empty date cell,
\* every other cell an amount, a text with full-width characters and
\* surrounding whitespace, or empty
ShapePool == {<<"7">>, <<" ", "FW_A", "x", "IDSP">>, << >>}
ShapeRow(r) ==
  \/ r = << >>
  \/ \E d \in {ValidDate1, << >>}, n \in 0..(MaxWidth - 1) :
       \E t \in [1..n -> ShapePool] : r = <<d>> \o t

\* date rows: widths 5 to 7, the date cell built from parts
YearParts == {<<"2", "0", "2", "4">>, <<"2", "0", "2", "3">>, <<"1", "9", "0", "0">>,
              <<"2", "0", "0", "0">>, <<"0", "0", "0", "0">>, <<"2", "4">>,
              <<"2", "0", "2", "FW5">>}
MonthParts == {<<"0", "1">>, <<"1">>, <<"0", "2">>, <<"2">>, <<"1", "2">>, <<"1", "3">>,
               <<"0", "0">>, <<"0", "4">>, <<"1", "FW5">>, << >>}
DayParts == {<<"1", "5">>, <<"5">>, <<"0", "5">>, <<" ", "5">>, <<"2", "8">>, <<"2", "9">>,
             <<"3", "0">>, <<"3", "1">>, <<"3", "2">>, <<"0", "0">>, <<"2", "FW5">>,
             <<"FW5">>, << >>}
DatePads == {<<<< >>, << >>>>, <<<<" ">>, << >>>>, <<<< >>, <<"IDSP">>>>, <<<< >>, <<"x">>>>}
BlankCells == {<< >>, <<" ">>, <<"IDSP", " ">>, <<"x">>}
DateTail == <<<<"A">>, <<"5">>, <<"1">>, <<"1">>, <<"5">>, <<"x">>>>
DateRow(r) ==
  \E w \in 5..7 :
    \/ \E y \in YearParts, m \in MonthParts, d \in DayParts,
          sep \in {<<"/">>, <<"-">>}, pad \in DatePads :
         r = <<pad[1] \o y \o sep \o m \o sep \o d \o pad[2]>> \o SubSeq(DateTail, 1, w - 1)
    \/ \E c \in BlankCells : r = <<c>> \o SubSeq(DateTail, 1, w - 1)

\* amount rows: widths 6 to 8, a valid date, the third and the sixth cell
\* (from the fourth cell on, shifted by one in the row of width 8) taken
\* from every short text over the amount characters
NumChars == {"5", "-", ",", " ", "x", "FW5", "+"}
SmallNum == {<< >>, <<"7">>, <<"x">>, <<"-", "7">>}
AmountRow(r) ==
  \E n \in 0..MaxNumLen :
    \E c \in [1..n -> NumChars], k \in SmallNum :
      \E pq \in {<<c, k>>, <<k, c>>} :
        \/ r = <<ValidDate1, <<"A">>, pq[1], <<"1">>, <<"1">>, pq[2]>>
        \/ r = <<ValidDate1, <<"A">>, pq[1], <<"1">>, <<"1">>, pq[2], <<"x">>>>
        \/ r = <<ValidDate1, <<"A">>, <<"B">>, pq[1], <<"1">>, <<"1">>, pq[2], <<"x">>>>

\* text rows: widths 6 to 8, a valid date, the store cell and the note cell
\* (absent at width 6) empty, whitespace-only or a text
TextCells == {<< >>, <<" ">>, <<"IDSP", " ">>, <<"x">>, <<" ", "FW_A", " ">>, <<"KABU">>,
              <<"x", "IDSP", "x">>}
TextRow(r) ==
  \E st \in TextCells, nt \in TextCells :
    \/ r = <<ValidDate1, st, <<"5">>, <<"1">>, <<"1">>, <<"5">>>>
    \/ r = <<ValidDate1, st, <<"5">>, <<"1">>, <<"1">>, <<"5">>, nt>>
    \/ r = <<ValidDate1, st, nt, <<"5">>, <<"1">>, <<"1">>, <<"5">>, nt>>

\* the card number and service a row is parsed with
ParseContexts == {<<<< >>, "vpass">>, <<Card1, "enavi">>}

(***************************************************************************)
(* The importer: main and import_csv_to_mysql                              *)
(* (src/app/import_csv_to_mysql/main.py, lines 107-239).                   *)
(***************************************************************************)
MaxRuns == 2       \* runs of main in one behaviour
MaxEdits == 1      \* files replaced on disk in one behaviour

Dirs == {"data", "csv_data"}
FileNames == {"a.csv", "b.csv"}
Paths == Dirs \X FileNames

\* the rows of the files of the model
HeaderRow  == <<<<"x">>, <<"A">>, <<"x">>, <<"x">>, <<"x">>, <<"x">>, <<"x">>>>
TotalRow   == <<<< >>, <<"A">>, <<"7">>, << >>, << >>, << >>, << >>>>
MarkerRow1 == <<<<"x">>, <<" ">> \o Card1, <<"A">>>>
MarkerRow2 == <<ValidDate1, Card2 \o <<" ">>, <<"7">>, <<"1">>, <<"1">>, <<"7">>>>
DataRow1   == <<ValidDate1, <<"A">>, <<"7">>, <<"1">>, <<"1">>, <<"7">>, << >>>>
DataRow2   == <<ValidDate2, <<"FW_A">>, <<"5">>, <<"1">>, <<"1">>, << >>, <<"x">>>>

FileA == <<MarkerRow1, DataRow1, HeaderRow, DataRow2>>
FileB == <<DataRow2, MarkerRow2, DataRow1, TotalRow>>
FileE == <<HeaderRow, TotalRow>>
FileContents == {FileA, FileB, FileE}

\* the directories the runs find: a function from the paths that exist to
\* the rows of the file
InitFs == {f \in UNION {[P -> FileContents] : P \in SUBSET Paths} :
             /\ <<"data", "a.csv">> \in DOMAIN f
             /\ f[<<"data", "a.csv">>] \in {FileA, FileE}
             /\ <<"data", "b.csv">> \in DOMAIN f => f[<<"data", "b.csv">>] = FileB
             /\ <<"csv_data", "a.csv">> \in DOMAIN f => f[<<"csv_data", "a.csv">>] = FileB
             /\ <<"csv_data", "b.csv">> \notin DOMAIN f}

VARIABLES
  fs,                   \* the CSV files on disk
  edits,                \* files replaced on disk so far
  table,                \* committed rows of credit_histories, in insertion order
  pending,              \* rows inserted in the connection's open transaction
  runs,                 \* runs of main started so far (the clock of the model)
  pc,                   \* position of main / import_csv_to_mysql
  run_status,           \* how the last run of main ended
  service,              \* main: service
  csv_directory,        \* main: csv_directory
  csv_files,            \* main: sorted(csv_directory.glob('*.csv'))
  idx,                  \* main: files of csv_files handed to import_csv_to_mysql
  total_inserted,       \* main: total_inserted
  csv_file,             \* import_csv_to_mysql: csv_file
  content,              \* import_csv_to_mysql: rows of the opened file
  rix,                  \* import_csv_to_mysql: rows of content read so far
  current_card_number,  \* import_csv_to_mysql: current_card_number
  inserted_count,       \* import_csv_to_mysql: inserted_count
  ret,                  \* value returned by the last call that returned
  msg,                  \* outcome line printed by the call: Skipped, Total, Error
  snap,                 \* history: table when the call began
  execs,                \* history: INSERT statements the call executed
  built,                \* history: records parse_csv_row built in the call
  opened,               \* history: the call reached open(csv_file)
  fault,                \* history: failure raised in the call, or "none"
  complete,             \* auxiliary, fixed from the start: the rows a complete
                        \* import inserts, for every content, key and time
  log,                  \* history: the calls that returned: file, msg, ret, whether
                        \* the file was a duplicate, whether a failure was raised
  p_pc, p_row, p_card, p_service, p_result,  \* the parser specification
  p_old,                \* the result of the copy in src/import_csv_to_mysql
  \* two concurrent calls of import_csv_to_mysql on separate connections
  c_table,              \* committed rows of credit_histories
  c_pending,            \* per connection: rows of its open transaction
  c_pc,                 \* per connection: position of its call
  c_content,            \* per connection: the rows of the file it reads
  c_service,            \* the service of both calls
  c_rix,                \* per connection: rows read so far
  c_card,               \* per connection: current_card_number
  c_count,              \* per connection: inserted_count
  c_ret,                \* per connection: the returned value
  \* MySQLBackupToS3 (src/mysql_backup_to_s3/main.py)
  b_pc,                 \* position of run
  b_db_name,            \* self.db_name
  b_files,              \* the files in backup_dir
  b_s3,                 \* the keys of the bucket
  b_dump_path,          \* run's dump_path (None: the empty sequence)
  b_compressed_path,    \* run's compressed_path
  b_result,             \* how run ended: the S3 URI or the step that raised
  b_runs,               \* runs started so far
  \* say_chromecast main (src/app/say_chromecast/main.py)
  y_pc,                 \* position of main
  y_discord,            \* args.discord
  y_webhook,            \* WEBHOOK_URL is set
  y_quiet_start,        \* QUIET_START_HOUR (unset or empty: the empty text)
  y_quiet_end,          \* QUIET_END_HOUR
  y_start_hour,         \* quiet_start_hour (None: the empty sequence)
  y_end_hour,           \* quiet_end_hour
  y_env,                \* CHROMECAST_NAME, CHROMECAST_HOST and SERVER_URL are set
  y_hour,               \* datetime.now().hour read by is_quiet_hours
  y_notify,             \* the Discord notification: none, sent or failed
  y_audio,              \* an audio file was generated
  y_connected,          \* the Chromecast was connected
  y_played,             \* the audio was played
  y_ret,                \* the value main returned (not yet: the empty sequence)
  y_exit                \* the return statement main left by

dbVars    == <<table, pending>>
mainVars  == <<service, csv_directory, csv_files, idx, total_inserted>>
callVars  == <<csv_file, content, rix, current_card_number, inserted_count, ret, msg>>
histVars  == <<snap, execs, built, opened, fault, log>>
parseVars == <<p_pc, p_row, p_card, p_service, p_result, p_old>>
concVars  == <<c_table, c_pending, c_pc, c_content, c_service, c_rix, c_card, c_count, c_ret>>
backupVars == <<b_pc, b_db_name, b_files, b_s3, b_dump_path, b_compressed_path, b_result,
                b_runs>>
sayVars   == <<y_pc, y_discord, y_webhook, y_quiet_start, y_quiet_end, y_start_hour,
               y_end_hour, y_env, y_hour, y_notify, y_audio, y_connected, y_played, y_ret,
               y_exit>>
extVars   == <<concVars, backupVars, sayVars>>
importerVars == <<fs, edits, runs, pc, run_status, dbVars, mainVars, callVars, histVars>>
\* what the steps of the concurrent calls, of the backup and of
\* say_chromecast leave alone
concFrame   == <<importerVars, parseVars, complete, backupVars, sayVars>>
backupFrame == <<importerVars, parseVars, complete, concVars, sayVars>>
sayFrame    == <<importerVars, parseVars, complete, concVars, backupVars>>
vars == <<importerVars, parseVars, complete, extVars>>

\* os.path.basename (line 116)
BaseName(path) == path[2]

\* sorted(csv_directory.glob('*.csv')) (line 214): the files of one directory
\* sort by name
NameRank(n) == IF n = "a.csv" THEN 1 ELSE 2
RECURSIVE SortedPaths(_)
SortedPaths(S) ==
  IF S = {} THEN << >>
  ELSE LET first == CHOOSE x \in S : \A y \in S : NameRank(x[2]) <= NameRank(y[2])
       IN  <<first>> \o SortedPaths(S \ {first})
Glob(files, dir) == SortedPaths({q \in DOMAIN files : q[1] = dir})

\* variant: the two parameters of the query are bound in the wrong order
CountRowsSwapped(rows, s, f) ==
  Len(SelectSeq(rows, LAMBDA r : r.service = f /\ r.file = s))

\* variant: the query matches the file name alone
CountRowsByFile(rows, s, f) == Len(SelectSeq(rows, LAMBDA r : r.file = f))

\* SELECT COUNT(*) ... WHERE service = %s AND file = %s (lines 119-124)
CountRows(rows, s, f) == Len(SelectSeq(rows, LAMBDA r : r.service = s /\ r.file = f))

\* variant: the card number test applies only to rows parse_csv_row excludes
IsMarkerIfExcluded(row) == /\ Len(row) > 1
                           /\ Cell(row, 1) # << >>
                           /\ Contains(Cell(row, 1), "-")
                           /\ Contains(Cell(row, 1), "*")
                           /\ ParseUsedAt(row) = << >>

\* line 147: the card number row
IsMarker(row) == /\ Len(row) > 1
                 /\ Cell(row, 1) # << >>
                 /\ Contains(Cell(row, 1), "-")
                 /\ Contains(Cell(row, 1), "*")

\* variant: the scan starts with the card number the previous scan left
KeepCardNumber(prev) == prev

\* line 138: the card number a scan starts with (prev: the value the
\* previous scan left)
InitialCardNumber(prev) == << >>

\* variant: the card number is inserted with the other values
InsertValuesWithCard(data, file_name, now) ==
  [used_at |-> data.used_at, store |-> data.store, price |-> data.price,
   payment |-> data.payment, note |-> data.note, service |-> data.service,
   file |-> file_name, created_at |-> now, updated_at |-> now,
   card_number |-> data.card_number]

\* lines 160-170: the values of the INSERT statement
InsertValues(data, file_name, now) ==
  [used_at |-> data.used_at, store |-> data.store, price |-> data.price,
   payment |-> data.payment, note |-> data.note, service |-> data.service,
   file |-> file_name, created_at |-> now, updated_at |-> now]

\* variant: the commit keeps only the first row of the transaction
CommitFirstRow(committed, open) ==
  committed \o (IF open = << >> THEN << >> ELSE <<Head(open)>>)

\* connection.commit() (line 177) and connection.rollback() (line 183) on
\* the committed rows and the rows of the open transaction
CommitRows(committed, open) == committed \o open
\* variant: the handler commits what was inserted before the failure
RollbackCommits(committed, open) == committed \o open
RollbackRows(committed, open) == committed

\* variant: a duplicate is reported like an import of no row
DuplicateAsTotal == [msg |-> "Total", ret |-> 0]
\* lines 126-129: what a skipped duplicate prints and returns
DuplicateOutcome == [msg |-> "Skipped", ret |-> 0]

\* the rows a complete import of a file inserts: one per row that is neither
\* a card number row nor excluded, in file order
RECURSIVE FileRecords(_, _, _, _)
FileRecords(rows, s, f, now) ==
  IF rows = << >> THEN << >>
  ELSE LET parsed == parse_csv_row(Head(rows), << >>, s)
       IN  (IF IsMarker(Head(rows)) \/ parsed = << >> THEN << >>
            ELSE <<InsertValues(parsed[1], f, now)>>)
           \o FileRecords(Tail(rows), s, f, now)

\* history: some row of rows carries the service and the file name
HasRowsFor(rows, s, f) == \E i \in 1..Len(rows) : rows[i].service = s /\ rows[i].file = f

\* connection.close() (line 238) or the loss of the connection: the server
\* discards the open transaction
CloseRows(committed, open) == committed

ParserOff == /\ p_pc = "off" /\ p_row = << >> /\ p_card = << >>
             /\ p_service = "vpass" /\ p_result = << >> /\ p_old = << >>

ConcOff == /\ c_table = << >> /\ c_pending = << >> /\ c_pc = << >> /\ c_content = << >>
           /\ c_service = "vpass" /\ c_rix = << >> /\ c_card = << >> /\ c_count = << >>
           /\ c_ret = << >>

BackupOff == /\ b_pc = "off" /\ b_db_name = "mydb" /\ b_files = {} /\ b_s3 = {}
             /\ b_dump_path = << >> /\ b_compressed_path = << >> /\ b_result = "none"
             /\ b_runs = 0

SayOff == /\ y_pc = "off" /\ y_discord = FALSE /\ y_webhook = FALSE
          /\ y_quiet_start = << >> /\ y_quiet_end = << >>
          /\ y_start_hour = << >> /\ y_end_hour = << >> /\ y_env = FALSE /\ y_hour = 0
          /\ y_notify = "none" /\ y_audio = FALSE /\ y_connected = FALSE
          /\ y_played = FALSE /\ y_ret = << >> /\ y_exit = "none"

ExtOff == ConcOff /\ BackupOff /\ SayOff

ImporterStart(f) ==
  /\ fs = f /\ edits = 0 /\ table = << >> /\ pending = << >> /\ runs = 0
  /\ pc = "idle" /\ run_status = "none"
  /\ service = "vpass" /\ csv_directory = "data" /\ csv_files = << >>
  /\ idx = 0 /\ total_inserted = 0
  /\ csv_file = <<"data", "a.csv">> /\ content = << >> /\ rix = 0
  /\ current_card_number = << >> /\ inserted_count = 0 /\ ret = 0 /\ msg = "none"
  /\ snap = << >> /\ execs = 0 /\ built = << >> /\ opened = FALSE
  /\ fault = "none" /\ log = << >>

\* the rows of every complete import of a content under a key at a time
CompleteImports ==
  {FileRecords(c, s, f, t) : c \in FileContents, s \in Services, f \in FileNames,
                             t \in 1..MaxRuns}

Init == /\ (\E f \in InitFs : ImporterStart(f)) /\ ParserOff /\ ExtOff
        /\ complete = CompleteImports

\* main, lines 189-204: a run starts; service is the constant of line 204,
\* csv_directory the directory of line 201 (data or csv_data by the copy)
StartRun ==
  /\ pc = "idle" /\ runs < MaxRuns
  /\ \E s \in Services, d \in Dirs : service' = s /\ csv_directory' = d
  /\ runs' = runs + 1
  /\ pc' = "connect" /\ run_status' = "running"
  /\ csv_files' = << >> /\ idx' = 0 /\ total_inserted' = 0
  /\ content' = << >> /\ rix' = 0 /\ current_card_number' = << >>
  /\ inserted_count' = 0 /\ ret' = 0 /\ msg' = "none"
  /\ snap' = << >> /\ execs' = 0 /\ built' = << >> /\ opened' = FALSE
  /\ fault' = "none" /\ log' = << >>
  /\ UNCHANGED <<fs, edits, dbVars, csv_file, parseVars, complete, extVars>>

\* what mysql.connector.connect does: it returns a connection that is
\* connected, returns one that is not, or raises Error
ConnectOutcomes == {"connected", "not_connected", "connect_error"}

\* variant: the connection is returned without the is_connected test
ConnectUnchecked(outcome) ==
  IF outcome = "connect_error" THEN << >> ELSE <<outcome>>

\* connect_to_mysql, lines 15-35: the connection when it is connected
\* (lines 30-32), None when Error is raised (lines 33-35) and None when the
\* function ends without a return because is_connected() is false
connect_to_mysql(outcome) ==
  IF outcome = "connected" THEN <<outcome>> ELSE << >>

\* lines 206-208: connect_to_mysql returned a connection
Connect ==
  /\ pc = "connect"
  /\ \E o \in ConnectOutcomes :
       /\ connect_to_mysql(o) # << >>
       /\ fault' = (IF o = "connected" THEN fault ELSE o)
  /\ pc' = "glob"
  /\ UNCHANGED <<fs, edits, runs, run_status, dbVars, mainVars, callVars,
                 snap, execs, built, opened, log, parseVars, complete, extVars>>

\* lines 208-210: connect_to_mysql returned None
ConnectFail ==
  /\ pc = "connect"
  /\ \E o \in ConnectOutcomes : connect_to_mysql(o) = << >> /\ fault' = o
  /\ pc' = "idle" /\ run_status' = "noconn"
  /\ UNCHANGED <<fs, edits, runs, dbVars, mainVars, callVars,
                 snap, execs, built, opened, log, parseVars, complete, extVars>>

\* lines 214-223, and 236-238 when no file is found
GlobFiles ==
  /\ pc = "glob"
  /\ csv_files' = Glob(fs, csv_directory)
  /\ IF csv_files' = << >>
     THEN pc' = "idle" /\ run_status' = "empty"
     ELSE pc' = "loop" /\ run_status' = run_status
  /\ total_inserted' = 0
  /\ UNCHANGED <<fs, edits, runs, dbVars, service, csv_directory, idx, callVars, histVars,
                 parseVars, complete, extVars>>

\* lines 224-228 and 113-116: the next file is handed to import_csv_to_mysql
CallImport ==
  /\ pc = "loop" /\ idx < Len(csv_files)
  /\ idx' = idx + 1
  /\ csv_file' = csv_files[idx + 1]
  /\ pc' = "check"
  /\ snap' = table /\ execs' = 0 /\ built' = << >> /\ opened' = FALSE
  /\ fault' = "none" /\ msg' = "none"
  /\ UNCHANGED <<fs, edits, runs, run_status, dbVars, service, csv_directory, csv_files,
                 total_inserted, content, rix, current_card_number, inserted_count,
                 ret, log, parseVars, complete, extVars>>

\* lines 232-238: every file was handed over; the connection is closed
FinishRun ==
  /\ pc = "loop" /\ idx = Len(csv_files)
  /\ pc' = "idle" /\ run_status' = "completed"
  /\ table' = CloseRows(table, pending) /\ pending' = << >>
  /\ UNCHANGED <<fs, edits, runs, mainVars, callVars, histVars, parseVars, complete, extVars>>

\* lines 118-138: the duplicate check
CheckDuplicate ==
  /\ pc = "check"
  /\ LET count == CountRows(table \o pending, service, BaseName(csv_file))
     IN  IF count > 0
         THEN /\ msg' = DuplicateOutcome.msg /\ ret' = DuplicateOutcome.ret
              /\ pc' = "returned"
              /\ UNCHANGED <<inserted_count, current_card_number>>
         ELSE /\ inserted_count' = 0
              /\ current_card_number' = InitialCardNumber(current_card_number)
              /\ pc' = "open"
              /\ UNCHANGED <<msg, ret>>
  /\ UNCHANGED <<fs, edits, runs, run_status, dbVars, mainVars, csv_file, content, rix,
                 histVars, parseVars, complete, extVars>>

\* lines 142-143: the file is opened
OpenFile ==
  /\ pc = "open"
  /\ content' = fs[csv_file] /\ rix' = 0 /\ opened' = TRUE
  /\ pc' = "scan"
  /\ UNCHANGED <<fs, edits, runs, run_status, dbVars, mainVars, csv_file,
                 current_card_number, inserted_count, ret, msg,
                 snap, execs, built, fault, log, parseVars, complete, extVars>>

\* lines 145-149: a card number row
ScanMarker ==
  /\ pc = "scan" /\ rix < Len(content)
  /\ IsMarker(content[rix + 1])
  /\ current_card_number' = Strip(Cell(content[rix + 1], 1))
  /\ rix' = rix + 1
  /\ UNCHANGED <<fs, edits, runs, pc, run_status, dbVars, mainVars, csv_file, content,
                 inserted_count, ret, msg, histVars, parseVars, complete, extVars>>

\* lines 151-154: a row parse_csv_row excludes
ScanExcluded ==
  /\ pc = "scan" /\ rix < Len(content)
  /\ ~IsMarker(content[rix + 1])
  /\ parse_csv_row(content[rix + 1], current_card_number, service) = << >>
  /\ rix' = rix + 1
  /\ UNCHANGED <<fs, edits, runs, pc, run_status, dbVars, mainVars, csv_file, content,
                 current_card_number, inserted_count, ret, msg, histVars, parseVars, complete, extVars>>

\* lines 151-174: a data row is parsed and inserted
ScanInsert ==
  /\ pc = "scan" /\ rix < Len(content)
  /\ ~IsMarker(content[rix + 1])
  /\ LET parsed == parse_csv_row(content[rix + 1], current_card_number, service)
     IN  /\ parsed # << >>
         /\ pending' = Append(pending, InsertValues(parsed[1], BaseName(csv_file), runs))
         /\ built' = Append(built, [row_index |-> rix, data |-> parsed[1]])
  /\ inserted_count' = inserted_count + 1
  /\ execs' = execs + 1
  /\ rix' = rix + 1
  /\ UNCHANGED <<fs, edits, runs, pc, run_status, table, mainVars, csv_file, content,
                 current_card_number, ret, msg, snap, opened, fault, log, parseVars, complete, extVars>>

\* line 145: the reader is exhausted
ScanEnd ==
  /\ pc = "scan" /\ rix = Len(content)
  /\ pc' = "commit"
  /\ UNCHANGED <<fs, edits, runs, run_status, dbVars, mainVars, callVars, histVars, parseVars, complete, extVars>>

\* lines 176-179 and 185-186
Commit ==
  /\ pc = "commit"
  /\ table' = CommitRows(table, pending) /\ pending' = << >>
  /\ msg' = "Total" /\ ret' = inserted_count
  /\ pc' = "returned"
  /\ UNCHANGED <<fs, edits, runs, run_status, mainVars, csv_file, content, rix,
                 current_card_number, inserted_count, histVars, parseVars, complete, extVars>>

\* lines 228-230: main adds the returned count
ReturnToMain ==
  /\ pc = "returned"
  /\ total_inserted' = total_inserted + ret
  /\ log' = Append(log, [file |-> BaseName(csv_file), msg |-> msg, ret |-> ret,
                         dup |-> HasRowsFor(snap, service, BaseName(csv_file)),
                         failed |-> fault # "none"])
  /\ pc' = "loop"
  /\ UNCHANGED <<fs, edits, runs, run_status, dbVars, service, csv_directory, csv_files, idx,
                 callVars, snap, execs, built, opened, fault, parseVars, complete, extVars>>

(***************************************************************************)
(* Failures.  mysql.connector.Error raised inside the try block (line 140) *)
(* reaches the handler of line 181; an Error raised outside it (lines      *)
(* 113-124, line 183) and every other exception (OSError of open,          *)
(* UnicodeDecodeError of the reader, KeyboardInterrupt) leaves             *)
(* import_csv_to_mysql and main, whose finally closes the connection.      *)
(***************************************************************************)

\* lines 113, 123-124: connection.cursor() or the SELECT raises Error
CheckFail ==
  /\ pc = "check"
  /\ fault' = "dedup" /\ pc' = "raise"
  /\ UNCHANGED <<fs, edits, runs, run_status, dbVars, mainVars, callVars,
                 snap, execs, built, opened, log, parseVars, complete, extVars>>

\* line 142: open raises OSError
OpenFail ==
  /\ pc = "open"
  /\ fault' = "open" /\ opened' = TRUE /\ pc' = "raise"
  /\ UNCHANGED <<fs, edits, runs, run_status, dbVars, mainVars, callVars,
                 snap, execs, built, log, parseVars, complete, extVars>>

\* line 145: the reader raises UnicodeDecodeError (the file is not Shift-JIS)
DecodeFail ==
  /\ pc = "scan" /\ rix < Len(content)
  /\ fault' = "decode" /\ pc' = "raise"
  /\ UNCHANGED <<fs, edits, runs, run_status, dbVars, mainVars, callVars,
                 snap, execs, built, opened, log, parseVars, complete, extVars>>

\* line 172: cursor.execute raises Error
InsertFail ==
  /\ pc = "scan" /\ rix < Len(content)
  /\ ~IsMarker(content[rix + 1])
  /\ parse_csv_row(content[rix + 1], current_card_number, service) # << >>
  /\ execs' = execs + 1
  /\ fault' = "insert" /\ pc' = "except"
  /\ UNCHANGED <<fs, edits, runs, run_status, dbVars, mainVars, callVars,
                 snap, built, opened, log, parseVars, complete, extVars>>

\* line 177: connection.commit raises Error
CommitFail ==
  /\ pc = "commit"
  /\ fault' = "commit" /\ pc' = "except"
  /\ UNCHANGED <<fs, edits, runs, run_status, dbVars, mainVars, callVars,
                 snap, execs, built, opened, log, parseVars, complete, extVars>>

\* lines 181-186: the handler rolls back and returns 0
Rollback ==
  /\ pc = "except"
  /\ table' = RollbackRows(table, pending) /\ pending' = << >>
  /\ msg' = "Error" /\ ret' = 0
  /\ pc' = "returned"
  /\ UNCHANGED <<fs, edits, runs, run_status, mainVars, csv_file, content, rix,
                 current_card_number, inserted_count, histVars, parseVars, complete, extVars>>

\* line 183: connection.rollback raises Error
RollbackFail ==
  /\ pc = "except"
  /\ fault' = "rollback" /\ pc' = "raise"
  /\ UNCHANGED <<fs, edits, runs, run_status, dbVars, mainVars, callVars,
                 snap, execs, built, opened, log, parseVars, complete, extVars>>

\* lines 236-239: the exception leaves main through its finally
Propagate ==
  /\ pc = "raise"
  /\ table' = CloseRows(table, pending) /\ pending' = << >>
  /\ pc' = "idle" /\ run_status' = "aborted"
  /\ UNCHANGED <<fs, edits, runs, mainVars, callVars, histVars, parseVars, complete, extVars>>

\* the process is interrupted or killed while a file is imported
Interrupt ==
  /\ pc \in {"check", "open", "scan", "commit", "except", "returned"}
  /\ table' = CloseRows(table, pending) /\ pending' = << >>
  /\ fault' = "interrupt"
  /\ pc' = "idle" /\ run_status' = "killed"
  /\ UNCHANGED <<fs, edits, runs, mainVars, callVars, snap, execs, built, opened, log,
                 parseVars, complete, extVars>>

\* between two runs the content of a statement file is replaced
EditFile ==
  /\ pc = "idle" /\ 0 < runs /\ runs < MaxRuns /\ edits < MaxEdits
  /\ \E q \in DOMAIN fs, c \in FileContents :
       /\ fs[q] # c
       /\ fs' = [fs EXCEPT ![q] = c]
  /\ edits' = edits + 1
  /\ UNCHANGED <<runs, pc, run_status, dbVars, mainVars, callVars, histVars, parseVars, complete, extVars>>

Next ==
  \/ EditFile
  \/ StartRun \/ Connect \/ ConnectFail \/ GlobFiles \/ CallImport \/ FinishRun
  \/ CheckDuplicate \/ OpenFile \/ ScanMarker \/ ScanExcluded \/ ScanInsert \/ ScanEnd
  \/ Commit \/ ReturnToMain
  \/ CheckFail \/ OpenFail \/ DecodeFail \/ InsertFail \/ CommitFail
  \/ Rollback \/ RollbackFail \/ Propagate \/ Interrupt

Spec == Init /\ [][Next]_vars

(***************************************************************************)
(* The parser specification: parse_csv_row applied to every row that       *)
(* ShapeRow, DateRow, AmountRow or TextRow admits.                                 *)
(***************************************************************************)
ImporterOff == ImporterStart([q \in {<<"data", "a.csv">>} |-> FileE])

InitParse ==
  /\ ImporterOff
  /\ p_pc = "input"
  /\ (ShapeRow(p_row) \/ DateRow(p_row) \/ AmountRow(p_row) \/ TextRow(p_row))
  /\ \E c \in ParseContexts : p_card = c[1] /\ p_service = c[2]
  /\ p_result = << >> /\ p_old = << >>
  /\ complete = {} /\ ExtOff

\* one call of parse_csv_row (lines 38-104) and one of its older copy
ParseRow ==
  /\ p_pc = "input"
  /\ p_result' = parse_csv_row(p_row, p_card, p_service)
  /\ p_old' = parse_csv_row_old(p_row, p_card, p_service)
  /\ p_pc' = "parsed"
  /\ UNCHANGED <<fs, edits, runs, pc, run_status, dbVars, mainVars, callVars, histVars,
                 p_row, p_card, p_service, complete, extVars>>

NextParse == ParseRow

SpecParse == InitParse /\ [][NextParse]_vars

(***************************************************************************)
(* The concurrent specification: two calls of import_csv_to_mysql          *)
(* (src/app/import_csv_to_mysql/main.py, lines 107-186) for one service    *)
(* and one file name, each on its own connection, their statements         *)
(* interleaved. A connection's SELECT reads the committed rows and the     *)
(* rows of its own open transaction; nothing in the code locks the table   *)
(* or sets an isolation level, and the INSERT names no unique key.         *)
(***************************************************************************)
Procs == {1, 2}
ConcFile == "a.csv"

InitConc ==
  /\ ImporterOff /\ ParserOff /\ complete = {} /\ BackupOff /\ SayOff
  /\ c_table = << >>
  /\ c_pending = [p \in Procs |-> << >>]
  /\ c_pc = [p \in Procs |-> "check"]
  /\ c_content \in [Procs -> {FileA, FileB}]
  /\ c_service \in Services
  /\ c_rix = [p \in Procs |-> 0]
  /\ c_card = [p \in Procs |-> << >>]
  /\ c_count = [p \in Procs |-> 0]
  /\ c_ret = [p \in Procs |-> << >>]

\* lines 113-138: the duplicate check of one call
ConcCheck(p) ==
  /\ c_pc[p] = "check"
  /\ IF CountRows(c_table \o c_pending[p], c_service, ConcFile) > 0
     THEN /\ c_ret' = [c_ret EXCEPT ![p] = <<DuplicateOutcome.ret>>]
          /\ c_pc' = [c_pc EXCEPT ![p] = "done"]
          /\ UNCHANGED <<c_count, c_card>>
     ELSE /\ c_count' = [c_count EXCEPT ![p] = 0]
          /\ c_card' = [c_card EXCEPT ![p] = InitialCardNumber(c_card[p])]
          /\ c_pc' = [c_pc EXCEPT ![p] = "scan"]
          /\ UNCHANGED c_ret
  /\ UNCHANGED <<c_table, c_pending, c_content, c_service, c_rix, concFrame>>

\* lines 145-174: one row of the file of one call
ConcScan(p) ==
  /\ c_pc[p] = "scan" /\ c_rix[p] < Len(c_content[p])
  /\ LET row    == c_content[p][c_rix[p] + 1]
         parsed == parse_csv_row(row, c_card[p], c_service)
     IN  IF IsMarker(row)
         THEN /\ c_card' = [c_card EXCEPT ![p] = Strip(Cell(row, 1))]
              /\ UNCHANGED <<c_pending, c_count>>
         ELSE IF parsed = << >>
         THEN UNCHANGED <<c_card, c_pending, c_count>>
         ELSE /\ c_pending' = [c_pending EXCEPT
                                 ![p] = Append(@, InsertValues(parsed[1], ConcFile, 1))]
              /\ c_count' = [c_count EXCEPT ![p] = @ + 1]
              /\ UNCHANGED c_card
  /\ c_rix' = [c_rix EXCEPT ![p] = @ + 1]
  /\ UNCHANGED <<c_table, c_pc, c_content, c_service, c_ret, concFrame>>

\* lines 176-179: the commit of one call
ConcCommit(p) ==
  /\ c_pc[p] = "scan" /\ c_rix[p] = Len(c_content[p])
  /\ c_table' = CommitRows(c_table, c_pending[p])
  /\ c_pending' = [c_pending EXCEPT ![p] = << >>]
  /\ c_ret' = [c_ret EXCEPT ![p] = <<c_count[p]>>]
  /\ c_pc' = [c_pc EXCEPT ![p] = "done"]
  /\ UNCHANGED <<c_content, c_service, c_rix, c_card, c_count, concFrame>>

NextConc == \E p \in Procs : ConcCheck(p) \/ ConcScan(p) \/ ConcCommit(p)

SpecConc == InitConc /\ [][NextConc]_vars

(***************************************************************************)
(* The backup specification: MySQLBackupToS3.run                           *)
(* (src/mysql_backup_to_s3/main.py, lines 50-195). A file of backup_dir is *)
(* a pair of the database name and its suffix.                             *)
(***************************************************************************)
MaxBackups == 2    \* runs of MySQLBackupToS3.run in one behaviour

DbNames == {"mydb", "shop"}

\* lines 57-58 and 101: the paths of the dump and of the compressed dump
DumpPath(db) == <<db, "sql">>
CompressedPath(dump_path) == <<dump_path[1], "sql.gz">>

\* cleanup, lines 144-153: the file is removed when it exists
cleanup(files, file_path) == files \ {file_path}

InitBackup ==
  /\ ImporterOff /\ ParserOff /\ complete = {} /\ ConcOff /\ SayOff
  /\ b_pc = "idle" /\ b_db_name = "mydb" /\ b_files = {} /\ b_s3 = {}
  /\ b_dump_path = << >> /\ b_compressed_path = << >> /\ b_result = "none"
  /\ b_runs = 0

\* lines 155-167: run starts
BackupStart ==
  /\ b_pc = "idle" /\ b_runs < MaxBackups
  /\ \E db \in DbNames : b_db_name' = db
  /\ b_runs' = b_runs + 1
  /\ b_dump_path' = << >> /\ b_compressed_path' = << >> /\ b_result' = "none"
  /\ b_pc' = "dump"
  /\ UNCHANGED <<b_files, b_s3, backupFrame>>

\* lines 171 and 76-86: create_dump writes the dump and returns its path
DumpOk ==
  /\ b_pc = "dump"
  /\ b_files' = b_files \cup {DumpPath(b_db_name)}
  /\ b_dump_path' = <<DumpPath(b_db_name)>>
  /\ b_pc' = "compress"
  /\ UNCHANGED <<b_db_name, b_s3, b_compressed_path, b_result, b_runs, backupFrame>>

\* lines 77-89: open created the file and mysqldump exited with an error;
\* create_dump raises and run's dump_path stays None
DumpFail ==
  /\ b_pc = "dump"
  /\ b_files' = b_files \cup {DumpPath(b_db_name)}
  /\ b_result' = "dump" /\ b_pc' = "finally"
  /\ UNCHANGED <<b_db_name, b_s3, b_dump_path, b_compressed_path, b_runs, backupFrame>>

\* line 77: open raises OSError, no file is created
DumpOpenFail ==
  /\ b_pc = "dump"
  /\ b_result' = "dump" /\ b_pc' = "finally"
  /\ UNCHANGED <<b_db_name, b_files, b_s3, b_dump_path, b_compressed_path, b_runs, backupFrame>>

\* lines 174 and 101-112: gzip -f replaces the dump by the compressed file
CompressOk ==
  /\ b_pc = "compress"
  /\ b_files' = (b_files \ {b_dump_path[1]}) \cup {CompressedPath(b_dump_path[1])}
  /\ b_compressed_path' = <<CompressedPath(b_dump_path[1])>>
  /\ b_pc' = "upload"
  /\ UNCHANGED <<b_db_name, b_s3, b_dump_path, b_result, b_runs, backupFrame>>

\* lines 104-115: gzip exits with an error; the dump stays, a partial
\* compressed file may stay; compress_dump raises and run's
\* compressed_path stays None
CompressFail ==
  /\ b_pc = "compress"
  /\ \E partial \in BOOLEAN :
       b_files' = IF partial THEN b_files \cup {CompressedPath(b_dump_path[1])}
                  ELSE b_files
  /\ b_result' = "compress" /\ b_pc' = "finally"
  /\ UNCHANGED <<b_db_name, b_s3, b_dump_path, b_compressed_path, b_runs, backupFrame>>

\* lines 177 and 127-139: the upload succeeds
UploadOk ==
  /\ b_pc = "upload"
  /\ b_s3' = b_s3 \cup {b_compressed_path[1]}
  /\ b_result' = "uri" /\ b_pc' = "finally"
  /\ UNCHANGED <<b_db_name, b_files, b_dump_path, b_compressed_path, b_runs, backupFrame>>

\* lines 130-142: upload_file raises
UploadFail ==
  /\ b_pc = "upload"
  /\ b_result' = "upload" /\ b_pc' = "finally"
  /\ UNCHANGED <<b_db_name, b_files, b_s3, b_dump_path, b_compressed_path, b_runs, backupFrame>>

\* lines 192-195: the finally clause; run returns or the exception leaves
BackupFinally ==
  /\ b_pc = "finally"
  /\ b_files' = IF b_compressed_path # << >>
                 THEN cleanup(b_files, b_compressed_path[1]) ELSE b_files
  /\ b_pc' = "idle"
  /\ UNCHANGED <<b_db_name, b_s3, b_dump_path, b_compressed_path, b_result, b_runs, backupFrame>>

NextBackup ==
  \/ BackupStart \/ DumpOk \/ DumpFail \/ DumpOpenFail \/ CompressOk \/ CompressFail
  \/ UploadOk \/ UploadFail \/ BackupFinally

SpecBackup == InitBackup /\ [][NextBackup]_vars

(***************************************************************************)
(* The say_chromecast specification: is_quiet_hours and main               *)
(* (src/app/say_chromecast/main.py, lines 18-39 and 200-362).              *)
(***************************************************************************)
Hours == 0..23

\* the values of QUIET_START_HOUR and QUIET_END_HOUR; the empty text stands
\* for an unset and for an empty variable (both are false at lines 244, 253)
QuietTexts == {<< >>, <<"0">>, <<"7">>, <<"0", "7">>, <<"1", "3">>, <<"2", "3">>,
               <<"2", "4">>, <<"-", "1">>, <<"x">>, <<" ">>}

\* lines 241-260: the hour of a variable, None when the variable is unset
\* or empty, int() raises ValueError or the number is not in 0..23
ParseQuietHour(text) ==
  IF text = << >> THEN << >>
  ELSE LET r == PyInt(Strip(text))
       IN  IF r.ok /\ 0 <= r.v /\ r.v <= 23 THEN <<r.v>> ELSE << >>

\* variant: the end hour belongs to the window
IsQuietHoursInclusive(start_hour, end_hour, current_hour) ==
  IF start_hour = << >> \/ end_hour = << >> THEN FALSE
  ELSE IF start_hour[1] > end_hour[1]
       THEN current_hour >= start_hour[1] \/ current_hour <= end_hour[1]
       ELSE start_hour[1] <= current_hour /\ current_hour <= end_hour[1]

\* is_quiet_hours, lines 18-39, with datetime.now().hour as current_hour
is_quiet_hours(start_hour, end_hour, current_hour) ==
  IF start_hour = << >> \/ end_hour = << >> THEN FALSE
  ELSE IF start_hour[1] > end_hour[1]
       THEN current_hour >= start_hour[1] \/ current_hour < end_hour[1]
       ELSE start_hour[1] <= current_hour /\ current_hour < end_hour[1]

InitSay ==
  /\ ImporterOff /\ ParserOff /\ complete = {} /\ ConcOff /\ BackupOff
  /\ y_pc = "start"
  /\ y_discord \in BOOLEAN /\ y_webhook \in BOOLEAN /\ y_env \in BOOLEAN
  /\ y_quiet_start \in QuietTexts /\ y_quiet_end \in QuietTexts
  /\ y_hour \in Hours
  /\ y_start_hour = << >> /\ y_end_hour = << >>
  /\ y_notify = "none" /\ y_audio = FALSE /\ y_connected = FALSE /\ y_played = FALSE
  /\ y_ret = << >> /\ y_exit = "none"

\* lines 237-260: the quiet hours are read from the environment
ReadQuietHours ==
  /\ y_pc = "start"
  /\ y_start_hour' = ParseQuietHour(y_quiet_start)
  /\ y_end_hour' = ParseQuietHour(y_quiet_end)
  /\ y_pc' = "discord"
  /\ UNCHANGED <<y_discord, y_webhook, y_quiet_start, y_quiet_end, y_env, y_hour, y_notify,
                 y_audio, y_connected, y_played, y_ret, y_exit, sayFrame>>

\* lines 262-268: --discord without WEBHOOK_URL
WebhookMissing ==
  /\ y_pc = "discord" /\ y_discord /\ ~y_webhook
  /\ y_ret' = <<1>> /\ y_exit' = "webhook" /\ y_pc' = "done"
  /\ UNCHANGED <<y_discord, y_webhook, y_quiet_start, y_quiet_end, y_start_hour, y_end_hour,
                 y_env, y_hour, y_notify, y_audio, y_connected, y_played, sayFrame>>

\* lines 270-280 and 42-67: the notification is sent or fails
SendDiscord ==
  /\ y_pc = "discord" /\ y_discord /\ y_webhook
  /\ \E sent \in BOOLEAN : y_notify' = (IF sent THEN "sent" ELSE "failed")
  /\ y_pc' = "quiet"
  /\ UNCHANGED <<y_discord, y_webhook, y_quiet_start, y_quiet_end, y_start_hour, y_end_hour,
                 y_env, y_hour, y_audio, y_connected, y_played, y_ret, y_exit, sayFrame>>

\* line 271: no --discord
SkipDiscord ==
  /\ y_pc = "discord" /\ ~y_discord
  /\ y_pc' = "quiet"
  /\ UNCHANGED <<y_discord, y_webhook, y_quiet_start, y_quiet_end, y_start_hour, y_end_hour,
                 y_env, y_hour, y_notify, y_audio, y_connected, y_played, y_ret, y_exit,
                 sayFrame>>

\* lines 282-287: within the quiet hours main returns 0
QuietReturn ==
  /\ y_pc = "quiet" /\ is_quiet_hours(y_start_hour, y_end_hour, y_hour)
  /\ y_ret' = <<0>> /\ y_exit' = "quiet" /\ y_pc' = "done"
  /\ UNCHANGED <<y_discord, y_webhook, y_quiet_start, y_quiet_end, y_start_hour, y_end_hour,
                 y_env, y_hour, y_notify, y_audio, y_connected, y_played, sayFrame>>

\* line 283: outside the quiet hours main goes on
QuietPass ==
  /\ y_pc = "quiet" /\ ~is_quiet_hours(y_start_hour, y_end_hour, y_hour)
  /\ y_pc' = "env"
  /\ UNCHANGED <<y_discord, y_webhook, y_quiet_start, y_quiet_end, y_start_hour, y_end_hour,
                 y_env, y_hour, y_notify, y_audio, y_connected, y_played, y_ret, y_exit,
                 sayFrame>>

\* lines 289-303: a required variable is missing
EnvMissing ==
  /\ y_pc = "env" /\ ~y_env
  /\ y_ret' = <<1>> /\ y_exit' = "env" /\ y_pc' = "done"
  /\ UNCHANGED <<y_discord, y_webhook, y_quiet_start, y_quiet_end, y_start_hour, y_end_hour,
                 y_env, y_hour, y_notify, y_audio, y_connected, y_played, sayFrame>>

\* lines 305-332: the audio file is generated (or found), or main returns 1
CreateAudio ==
  /\ y_pc = "env" /\ y_env
  /\ \E ok \in BOOLEAN :
       IF ok THEN /\ y_audio' = TRUE /\ y_pc' = "connect"
                  /\ UNCHANGED <<y_ret, y_exit>>
       ELSE /\ y_ret' = <<1>> /\ y_exit' = "audio" /\ y_pc' = "done"
            /\ UNCHANGED y_audio
  /\ UNCHANGED <<y_discord, y_webhook, y_quiet_start, y_quiet_end, y_start_hour, y_end_hour,
                 y_env, y_hour, y_notify, y_connected, y_played, sayFrame>>

\* lines 336-337: the Chromecast is connected, or main returns 1
ConnectCast ==
  /\ y_pc = "connect"
  /\ \E ok \in BOOLEAN :
       IF ok THEN /\ y_connected' = TRUE /\ y_pc' = "play"
                  /\ UNCHANGED <<y_ret, y_exit>>
       ELSE /\ y_ret' = <<1>> /\ y_exit' = "connect" /\ y_pc' = "done"
            /\ UNCHANGED y_connected
  /\ UNCHANGED <<y_discord, y_webhook, y_quiet_start, y_quiet_end, y_start_hour, y_end_hour,
                 y_env, y_hour, y_notify, y_audio, y_played, sayFrame>>

\* lines 341-349: the audio is played and main returns 0, or main returns 1
PlayAudio ==
  /\ y_pc = "play"
  /\ \E ok \in BOOLEAN :
       IF ok THEN y_played' = TRUE /\ y_ret' = <<0>> /\ y_exit' = "completed"
       ELSE y_played' = FALSE /\ y_ret' = <<1>> /\ y_exit' = "play"
  /\ y_pc' = "done"
  /\ UNCHANGED <<y_discord, y_webhook, y_quiet_start, y_quiet_end, y_start_hour, y_end_hour,
                 y_env, y_hour, y_notify, y_audio, y_connected, sayFrame>>

NextSay ==
  \/ ReadQuietHours \/ WebhookMissing \/ SendDiscord \/ SkipDiscord \/ QuietReturn
  \/ QuietPass \/ EnvMissing \/ CreateAudio \/ ConnectCast \/ PlayAudio

SpecSay == InitSay /\ [][NextSay]_vars

(***************************************************************************)
(* Properties of parse_csv_row, checked under SpecParse.                   *)
(***************************************************************************)
Parsed == p_pc = "parsed"
Width == Len(p_row)
Record == p_result[1]

\* a zero-padded YYYY/MM/DD text naming a day of the calendar
ValidYMD(s) ==
  /\ Len(s) = 10
  /\ \A i \in {1, 2, 3, 4, 6, 7, 9, 10} : IsAsciiDigit(s[i])
  /\ s[5] = "/" /\ s[8] = "/"
  /\ LET y == DigitsValue(SubSeq(s, 1, 4))
         m == DigitsValue(SubSeq(s, 6, 7))
         d == DigitsValue(SubSeq(s, 9, 10))
     IN  y >= 1 /\ m >= 1 /\ m <= 12 /\ d >= 1 /\ d <= DaysInMonth(y, m)

\* the positions of "/" in s
Slashes(s) == {i \in 1..Len(s) : s[i] = "/"}

\* the year, month and day texts of s when s has exactly two "/"
DateParts(s) ==
  LET a == CHOOSE i \in Slashes(s) : \A j \in Slashes(s) : i <= j
      b == CHOOSE i \in Slashes(s) : \A j \in Slashes(s) : j <= i
  IN  <<SubSeq(s, 1, a - 1), SubSeq(s, a + 1, b - 1), SubSeq(s, b + 1, Len(s))>>

MonthText(t) == \/ Len(t) = 1 /\ IsAsciiDigit(t[1]) /\ t[1] # "0"
                \/ Len(t) = 2 /\ t[1] = "0" /\ IsAsciiDigit(t[2]) /\ t[2] # "0"
                \/ Len(t) = 2 /\ t[1] = "1" /\ t[2] \in {"0", "1", "2"}

DayText(t) == \/ Len(t) = 1 /\ IsAsciiDigit(t[1]) /\ t[1] # "0"
              \/ Len(t) = 2 /\ t[1] \in {"0", " "} /\ IsAsciiDigit(t[2]) /\ t[2] # "0"
              \/ Len(t) = 2 /\ t[1] \in {"1", "2"} /\ IsDigit(t[2])
              \/ Len(t) = 2 /\ t[1] = "3" /\ t[2] \in {"0", "1"}

\* the date a text denotes: year / month / day, each read as a number
DateDenoted(s) ==
  LET parts == DateParts(s)
  IN  [y |-> DigitsValue(parts[1]),
       m |-> DigitsValue(parts[2]),
       d |-> DigitsValue(SelectSeq(parts[3], IsDigit))]

\* the texts strptime('%Y/%m/%d') accepts: four digits of a year from 1,
\* a month 1-12 and a day of that month, each with or without a leading
\* zero (the day also with a leading space)
AcceptedDate(s) ==
  /\ Cardinality(Slashes(s)) = 2
  /\ LET parts == DateParts(s)
     IN  /\ Len(parts[1]) = 4 /\ \A i \in 1..4 : IsDigit(parts[1][i])
         /\ MonthText(parts[2]) /\ DayText(parts[3])
         /\ DateDenoted(s).y >= 1
         /\ DateDenoted(s).d <= DaysInMonth(DateDenoted(s).y, DateDenoted(s).m)

BlankDateCell == Width >= 1 /\ Strip(Cell(p_row, 0)) = << >>
DateText == Strip(Cell(p_row, 0))

PriceCell == IF Width > 7 THEN Cell(p_row, Width - 5) ELSE Cell(p_row, 2)
PaymentCell == IF Width > 7 THEN Cell(p_row, Width - 2) ELSE Cell(p_row, 5)

\* the cell, commas removed and trimmed
AmountText(cell) == Strip(RemoveCommas(cell))

\* the text of an integer: an optional sign and at least one digit
IntText(cell) ==
  LET t == AmountText(cell)
      body == IF t # << >> /\ t[1] \in {"-", "+"} THEN Tail(t) ELSE t
  IN  body # << >> /\ \A i \in 1..Len(body) : IsDigit(body[i])

\* the text of a negative integer: a minus sign and digits, not all zero
NegativeText(cell) ==
  LET t == AmountText(cell)
  IN  /\ IntText(cell) /\ t[1] = "-"
      /\ \E i \in 2..Len(t) : DigitVal[t[i]] # 0

C9_Fallbacks ==
  Parsed =>
    /\ (Width >= 6 /\ ~BlankDateCell /\ ValidYMD(DateText)) => p_result # << >>
    /\ p_result # << >> =>
         /\ ~IntText(PriceCell) => Record.price = 0
         /\ ~IntText(PaymentCell) => Record.payment = Record.price

\* a record whose payment fell back to a price that is not 0
C9_Witness ==
  /\ Parsed /\ p_result # << >>
  /\ IntText(PriceCell) /\ Record.price # 0
  /\ ~IntText(PaymentCell) /\ AmountText(PaymentCell) # << >>
  /\ Record.payment = Record.price

\* the trimmed cells lo..hi of the row joined with ", "
RECURSIVE JoinedCells(_, _, _)
JoinedCells(row, lo, hi) ==
  IF hi < lo THEN << >>
  ELSE IF hi = lo THEN Strip(Cell(row, lo))
  ELSE JoinedCells(row, lo, hi - 1) \o <<",", " ">> \o Strip(Cell(row, hi))

\* C10: for a data row of width W > 7 the store the extraction sets is the
\* trimmed cells 1..W-6 joined with ", " (the record carries its NFKC form),
\* price is read from cell W-5, payment from cell W-2 and note from cell W-1.
C10_WideRows ==
  (Parsed /\ Width > 7 /\ p_result # << >>) =>
    /\ ExtractFields(p_row).store = JoinedCells(p_row, 1, Width - 6)
    /\ Record.store = NFKC(JoinedCells(p_row, 1, Width - 6))
    /\ Record.price = ParseAmount(<<Cell(p_row, Width - 5)>>, 0, 0)
    /\ Record.payment = ParseAmount(<<Cell(p_row, Width - 2)>>, 0, Record.price)
    /\ Record.note = ParseNote(<<Cell(p_row, Width - 1)>>, 0)

\* a record of a row of width 9 whose three store cells are not empty, with
\* a price, a payment and a note taken from the last five cells
C10_Witness ==
  /\ Parsed /\ Width = 9 /\ p_result # << >>
  /\ \A k \in 1..3 : Strip(Cell(p_row, k)) # << >>
  /\ Record.price = 7 /\ Cell(p_row, 5) = << >> /\ Cell(p_row, 6) = << >>
  /\ Record.payment = 7 /\ Record.note # << >>

\* the row with its payment-count and installment-count cells (3 and 4)
\* replaced by other texts
OtherCounts(row) == {[row EXCEPT ![4] = << >>, ![5] = << >>],
                     [row EXCEPT ![4] = <<"9">>, ![5] = <<"x">>]}

\* C11: for a data row of width 6 or 7, store is read from cell 1, price
\* from cell 2, payment from cell 5 and note from cell 6, which exists only
\* at width 7; the record is the same whatever cells 3 and 4 hold.
C11_Positional ==
  (Parsed /\ Width \in {6, 7} /\ p_result # << >>) =>
    /\ ExtractFields(p_row).store = Strip(Cell(p_row, 1))
    /\ Record.store = NFKC(Strip(Cell(p_row, 1)))
    /\ Record.price = ParseAmount(<<Cell(p_row, 2)>>, 0, 0)
    /\ Record.payment = ParseAmount(<<Cell(p_row, 5)>>, 0, Record.price)
    /\ Record.note = (IF Width = 7 THEN ParseNote(<<Cell(p_row, 6)>>, 0) ELSE << >>)
    /\ \A r \in OtherCounts(p_row) : parse_csv_row(r, p_card, p_service) = p_result

\* a record of a row of width 7 whose cells 3 and 4 hold an amount while
\* its price and payment-amount cells are empty, and whose note is set
C11_Witness ==
  /\ Parsed /\ Width = 7 /\ p_result # << >>
  /\ Cell(p_row, 3) = <<"7">> /\ Cell(p_row, 4) = <<"7">>
  /\ Cell(p_row, 2) = << >> /\ Cell(p_row, 5) = << >>
  /\ Record.price = 0 /\ Record.payment = 0 /\ Record.note # << >>

\* the note cell of the row: cell 6 of a row of width up to 7, the last
\* cell of a wider row; a row of width 6 has none
HasNoteCell == Width >= 7
NoteCell == IF Width > 7 THEN Cell(p_row, Width - 1) ELSE Cell(p_row, 6)
BlankText(cell) == \A i \in 1..Len(cell) : cell[i] \in {" ", "IDSP"}

\* C15: in every record store is a text, possibly empty (the normalised
\* trimmed store cells), and note is absent or a text that is not empty; it
\* is absent exactly when the note cell is missing, empty or
\* whitespace-only.
C15_TextFields ==
  (Parsed /\ p_result # << >>) =>
    /\ Record.store = NFKC(ExtractFields(p_row).store)
    /\ DOMAIN Record.store = 1..Len(Record.store)
    /\ Len(Record.note) <= 1
    /\ Record.note # << >> =>
         /\ DOMAIN Record.note[1] = 1..Len(Record.note[1])
         /\ Len(Record.note[1]) > 0
    /\ Record.note = << >> <=> (~HasNoteCell \/ BlankText(NoteCell))

\* a record whose store is the empty text and whose note is absent because
\* the note cell holds whitespace only
C15_Witness ==
  /\ Parsed /\ p_result # << >> /\ Width = 7
  /\ Record.store = << >> /\ Cell(p_row, 1) # << >>
  /\ NoteCell # << >> /\ BlankText(NoteCell) /\ Record.note = << >>

\* C16: on every row of width up to 7, with every card number and service,
\* the two copies of parse_csv_row return the same result: no record from
\* both, or records equal in every field.
C16_CopiesAgree ==
  (Parsed /\ Width <= 7) => p_old = p_result

\* the two copies returned the same record for a row of width 7 whose
\* store cell is surrounded by whitespace
C16_Witness ==
  /\ Parsed /\ Width = 7 /\ p_result # << >> /\ p_old = p_result
  /\ Strip(Cell(p_row, 1)) # Cell(p_row, 1) /\ Record.note # << >>

\* the two copies returned different records for a row of width 8
C16_WitnessWide ==
  /\ Parsed /\ Width = 8 /\ p_result # << >> /\ p_old # << >> /\ p_old # p_result

(***************************************************************************)
(* Properties of the importer, checked under Spec.                         *)
(***************************************************************************)
InCall == pc \in {"check", "open", "scan", "commit", "except", "returned", "raise"}
FileName == BaseName(csv_file)

\* the rows of rows that carry the service and the file name
KeyRows(rows, s, f) == SelectSeq(rows, LAMBDA r : r.service = s /\ r.file = f)

\* the table held rows of this call's (service, file) when the call began
AlreadyImported == HasRowsFor(snap, service, FileName)

\* C1: once rows of a (service, file) are committed, a later call for that
\* service and base name executes no INSERT, opens no transaction, leaves
\* the table as it was and, when it returns, returns 0; it ends otherwise
\* only when its own duplicate query raises.
C1_Idempotent ==
  (InCall /\ AlreadyImported) =>
    /\ execs = 0 /\ pending = << >> /\ table = snap
    /\ pc \in {"check", "returned", "raise"}
    /\ pc = "returned" => ret = 0
    /\ pc = "raise" => fault = "dedup"

\* a later call returned 0 although the file on disk no longer holds what
\* was imported under its name
C1_Witness ==
  /\ pc = "returned" /\ AlreadyImported /\ ret = 0 /\ runs = 2
  /\ \A t \in 1..runs :
       KeyRows(table, service, FileName) # FileRecords(fs[csv_file], service, FileName, t)

\* C2: in every state, also after a failed insert, a failed commit or
\* rollback, an exception or an interruption, the committed rows of a
\* (service, file) are none or all the records of one content of the file.
C2_AllOrNothing ==
  \A s \in Services, f \in FileNames :
    \/ KeyRows(table, s, f) = << >>
    \/ KeyRows(table, s, f) \in complete

\* the process was interrupted after an INSERT and before the commit, and
\* the table is as it was when the call began
C2_Witness ==
  /\ pc = "idle" /\ run_status = "killed" /\ fault = "interrupt"
  /\ execs >= 1 /\ msg = "none"
  /\ table = snap /\ ~HasRowsFor(table, service, FileName)

\* C3 as stated: whatever failure is raised while a file is imported, the
\* run goes on: when main ends, every file of the sorted list was handed to
\* import_csv_to_mysql.
C3_RunGoesOn ==
  (pc = "idle" /\ run_status \in {"completed", "aborted"}) => idx = Len(csv_files)

\* the outcome of a call that returned
Outcome(e) == IF e.dup THEN "skipped" ELSE IF e.failed THEN "failed" ELSE "inserted"

C5_DedupKey ==
  InCall =>
    /\ AlreadyImported =>
         /\ ~opened /\ pc \in {"check", "returned", "raise"}
         /\ pc = "returned" => (ret = 0 /\ msg = "Skipped")
    /\ (~AlreadyImported /\ pc \in {"scan", "commit", "except", "returned"}) =>
         (opened /\ content = fs[csv_file])
    /\ (~AlreadyImported /\ pc = "returned" /\ fault = "none") =>
         /\ msg = "Total"
         /\ table = snap \o FileRecords(fs[csv_file], service, FileName, runs)
         /\ ret = Len(FileRecords(fs[csv_file], service, FileName, runs))

\* a file was imported although the other service holds rows of its name
C5_Witness ==
  /\ pc = "returned" /\ ~AlreadyImported /\ msg = "Total" /\ ret > 0
  /\ \E s \in Services \ {service} : HasRowsFor(snap, s, FileName)

\* the trimmed cell[1] of the last card number row among the first n rows,
\* the empty string when there is none
CardBefore(rows, n) ==
  LET ms == {j \in 1..n : IsMarker(rows[j])}
  IN  IF ms = {} THEN << >>
      ELSE Strip(Cell(rows[CHOOSE j \in ms : \A k \in ms : k <= j], 1))

\* C6: every record built from a data row carries the trimmed cell[1] of
\* the last card number row before it in its file, the empty string when
\* there is none; the held value changes at card number rows only and
\* starts empty in every file.
C6_CardCarry ==
  (pc \in {"scan", "commit", "except", "returned"}) =>
    /\ \A k \in 1..Len(built) :
         built[k].data.card_number = CardBefore(content, built[k].row_index)
    /\ current_card_number = CardBefore(content, rix)

\* the second file of a run: its first record precedes its card number row
\* and carries the empty string, though the first file left a card number
C6_Witness ==
  /\ pc = "returned" /\ idx = 2 /\ Len(log) = 1 /\ log[1].ret = 2
  /\ FileA = fs[csv_files[1]]
  /\ Len(built) = 2
  /\ built[1].data.card_number = << >>
  /\ built[2].data.card_number = Card2

\* C12: when connect_to_mysql establishes no connection (the connector
\* raises Error, or returns a connection that is not connected), the run
\* ends at once: the directory is not listed, import_csv_to_mysql is called
\* for no file, no file is opened and no INSERT is executed.
C12_NoConnection ==
  fault \in {"not_connected", "connect_error"} =>
    /\ pc = "idle" /\ run_status = "noconn"
    /\ csv_files = << >> /\ idx = 0 /\ log = << >>
    /\ ~opened /\ execs = 0 /\ pending = << >>

\* the connector returned a connection that is not connected in a second
\* run, whose directory holds files and whose table holds rows
C12_Witness ==
  /\ fault = "not_connected" /\ run_status = "noconn" /\ runs = 2
  /\ Glob(fs, csv_directory) # << >> /\ table # << >>

\* a row of at least two cells whose cell[1] is not empty and holds both
\* "-" and "*"
MarkerShape(row) ==
  /\ Len(row) >= 2 /\ Len(row[2]) > 0
  /\ \E i \in 1..Len(row[2]) : row[2][i] = "-"
  /\ \E i \in 1..Len(row[2]) : row[2][i] = "*"

\* C13: whenever the scan passes a row, a row of the marker shape sets the
\* held card number to its trimmed cell[1] and yields no record and no
\* INSERT, whatever its width and date cell; any other row leaves the held
\* card number as it was.
C13_MarkerFirst ==
  [][(pc = "scan" /\ rix' = rix + 1) =>
       IF MarkerShape(content[rix + 1])
       THEN /\ current_card_number' = Strip(content[rix + 1][2])
            /\ built' = built /\ execs' = execs /\ pending' = pending
            /\ inserted_count' = inserted_count
       ELSE current_card_number' = current_card_number]_vars

\* the scan passed a card number row of 6 cells with a valid date, which
\* parse_csv_row would turn into a record: the held card number is its
\* trimmed cell[1] and no record was built from it
C13_Witness ==
  /\ pc = "scan" /\ rix >= 1
  /\ MarkerShape(content[rix]) /\ Len(content[rix]) >= 6
  /\ parse_csv_row(content[rix], << >>, service) # << >>
  /\ current_card_number = Card2
  /\ \A k \in 1..Len(built) : built[k].row_index # rix - 1

\* the rows of a file that are neither card number rows nor excluded rows
DataRowIndexes(rows, s) ==
  {i \in 1..Len(rows) : ~MarkerShape(rows[i]) /\ parse_csv_row(rows[i], << >>, s) # << >>}

\* C14: a call that is no duplicate and meets no failure returns the number
\* of rows it committed for the file, which is the number of rows of the
\* file that are neither card number rows nor excluded rows; it reports no
\* error, also when that number is 0.
C14_ReturnedCount ==
  (pc = "returned" /\ ~AlreadyImported /\ fault = "none") =>
    /\ msg = "Total" /\ pending = << >>
    /\ Len(table) = Len(snap) + ret
    /\ SubSeq(table, 1, Len(snap)) = snap
    /\ \A k \in (Len(snap) + 1)..Len(table) :
         table[k].service = service /\ table[k].file = FileName
    /\ ret = Cardinality(DataRowIndexes(content, service))

\* a file of a header row and a total row was committed and 0 was returned
C14_Witness ==
  /\ pc = "returned" /\ fault = "none" /\ ~AlreadyImported
  /\ content = FileE /\ msg = "Total" /\ ret = 0 /\ table = snap

\* a file with card number, header and data rows returned 2
C14_WitnessRows ==
  /\ pc = "returned" /\ fault = "none" /\ ~AlreadyImported
  /\ content = FileA /\ msg = "Total" /\ ret = 2 /\ Len(table) = Len(snap) + 2

\* the columns of the INSERT statement (lines 131-135)
Columns == {"used_at", "store", "price", "payment", "note", "service", "file",
            "created_at", "updated_at"}

\* the rows of a file without its card number rows
WithoutMarkers(rows) == SelectSeq(rows, LAMBDA r : ~MarkerShape(r))

\* C18: every row inserted or committed has the nine columns of the INSERT
\* statement and no card number, and the rows a call has inserted when its
\* scan ends are the rows the same file without its card number rows
\* yields, under the same service, file name and time.
C18_CardNotStored ==
  /\ \A k \in 1..Len(table) : DOMAIN table[k] = Columns
  /\ \A k \in 1..Len(pending) : DOMAIN pending[k] = Columns
  /\ pc = "commit" =>
       pending = FileRecords(WithoutMarkers(content), service, FileName, runs)

\* the scan of a file ended whose records were built under a card number:
\* two rows are inserted, the same as without the card number row
C18_Witness ==
  /\ pc = "commit" /\ Len(pending) = 2 /\ Len(built) = 2
  /\ built[1].data.card_number # << >>
  /\ Len(WithoutMarkers(content)) < Len(content)

(***************************************************************************)
(* Properties of the concurrent calls, checked under SpecConc.             *)
(***************************************************************************)
\* C17 as stated: however the duplicate queries, inserts and commits of two
\* concurrent calls for one (service, file) interleave, the table holds at
\* most one copy of the file's records: no row, or the records of one call.
C17_OneCopy ==
  LET rows == KeyRows(c_table, c_service, ConcFile)
  IN  \/ rows = << >>
      \/ \E p \in Procs : rows = FileRecords(c_content[p], c_service, ConcFile, 1)

(***************************************************************************)
(* Properties of MySQLBackupToS3.run, checked under SpecBackup.            *)
(***************************************************************************)
\* C19 as stated: whenever run has finished, with the S3 URI or with the
\* exception of a failed dump, compression or upload, neither the dump nor
\* the compressed dump of its database is left in backup_dir.
C19_NoLocalFile ==
  (b_pc = "idle" /\ b_result # "none") =>
    /\ DumpPath(b_db_name) \notin b_files
    /\ CompressedPath(DumpPath(b_db_name)) \notin b_files

(***************************************************************************)
(* Properties of say_chromecast, checked under SpecSay.                    *)
(***************************************************************************)
\* the hour 0-23 a text denotes, as a one-element sequence; the empty
\* sequence for a text that is unset or empty or denotes no such hour
DenotedHour(text) ==
  CASE text = <<"0">> -> <<0>>
    [] text = <<"7">> -> <<7>>
    [] text = <<"0", "7">> -> <<7>>
    [] text = <<"1", "3">> -> <<13>>
    [] text = <<"2", "3">> -> <<23>>
    [] OTHER -> << >>

BoundsValid == DenotedHour(y_quiet_start) # << >> /\ DenotedHour(y_quiet_end) # << >>

\* the window [start, end) on the clock, wrapping past midnight when
\* start > end and empty when start = end
InWindow(start, end, h) ==
  IF start <= end THEN start <= h /\ h < end ELSE h >= start \/ h < end

QuietNow ==
  /\ BoundsValid
  /\ InWindow(DenotedHour(y_quiet_start)[1], DenotedHour(y_quiet_end)[1], y_hour)

NothingCast == ~y_audio /\ ~y_connected /\ ~y_played

\* C20 as stated: within the quiet hours main returns 0 and generates,
\* connects and plays nothing; a notification requested with --discord has
\* always been attempted when the quiet hours are checked and when main
\* ends; with a bound unset or invalid main never returns for quiet hours.
C20_QuietGate ==
  /\ (y_pc \in {"quiet", "env", "connect", "play", "done"} /\ y_discord) => y_notify # "none"
  /\ y_pc = "done" =>
       /\ QuietNow => (y_ret = <<0>> /\ y_exit = "quiet" /\ NothingCast)
       /\ ~BoundsValid => y_exit # "quiet"

\* C20 amended: with --discord and no WEBHOOK_URL main returns 1 at once,
\* attempting no notification and checking no quiet hours; in every other
\* run a notification requested with --discord has been attempted, sent or
\* not, when the quiet hours are checked, and main returns for quiet hours
\* (0, with nothing generated, connected or played) exactly when both
\* bounds are hours 0-23 and the current hour lies in the window.
C20_QuietGateAfterWebhook ==
  /\ (y_pc \in {"quiet", "env", "connect", "play"} /\ y_discord) => y_notify # "none"
  /\ ~y_discord => y_notify = "none"
  /\ y_pc = "done" =>
       IF y_discord /\ ~y_webhook
       THEN y_ret = <<1>> /\ y_exit = "webhook" /\ y_notify = "none" /\ NothingCast
       ELSE /\ y_discord => y_notify # "none"
            /\ QuietNow => (y_ret = <<0>> /\ y_exit = "quiet" /\ NothingCast)
            /\ ~QuietNow => y_exit # "quiet"

\* main returned 0 for quiet hours at 3 o'clock in the window 23-7, after a
\* Discord notification that failed
C20_Witness ==
  /\ y_pc = "done" /\ y_exit = "quiet" /\ y_ret = <<0>>
  /\ y_discord /\ y_notify = "failed"
  /\ y_start_hour = <<23>> /\ y_end_hour = <<7>> /\ y_hour = 3

====
